---- MODULE Spec2Model ----
(***************************************************************************)
(* Connection hooks and folder cache tuning of internal/db/sqlite          *)
(* (db_open_cgo.go): the two driver registrations, the per-connection      *)
(* PRAGMA loops and tuneFolderCacheSize, with the SQLite engine as the     *)
(* environment that answers Exec / Prepare / Query / Next.                 *)
(***************************************************************************)
EXTENDS Integers, Sequences, FiniteSets, TLC

(***************************************************************************)
(* Bounds of the model.                                                    *)
(***************************************************************************)
\* connection ids the application opens while hooks of others still run
NumConns == 2

ConcConns == 1..NumConns
OneConn   == {1}

(***************************************************************************)
(* int64 arithmetic.  An int64 is four 16-bit limbs, least significant     *)
(* first, in two's complement, so that 128 * count wraps as it does in Go. *)
(***************************************************************************)
Base == 256 * 256
Half == Base \div 2

\* the int64 of a natural number below 2^31
I64(n) == <<n % Base, n \div Base, 0, 0>>

I64IsNeg(a) == a[4] >= Half

\* -a modulo 2^64: complement every limb and add one
I64Neg(a) ==
    LET s1 == (Base - 1 - a[1]) + 1
        s2 == (Base - 1 - a[2]) + (s1 \div Base)
        s3 == (Base - 1 - a[3]) + (s2 \div Base)
        s4 == (Base - 1 - a[4]) + (s3 \div Base)
    IN  <<s1 % Base, s2 % Base, s3 % Base, s4 % Base>>

\* k * a modulo 2^64, for a small k >= 0 (Go's wrapping int64 product)
I64MulSmall(k, a) ==
    LET p1 == k * a[1]
        p2 == k * a[2] + (p1 \div Base)
        p3 == k * a[3] + (p2 \div Base)
        p4 == k * a[4] + (p3 \div Base)
    IN  <<p1 % Base, p2 % Base, p3 % Base, p4 % Base>>

\* unsigned comparison of the limbs, most significant first
I64ULess(a, b) ==
    \/ a[4] < b[4]
    \/ a[4] = b[4] /\ a[3] < b[3]
    \/ a[4] = b[4] /\ a[3] = b[3] /\ a[2] < b[2]
    \/ a[4] = b[4] /\ a[3] = b[3] /\ a[2] = b[2] /\ a[1] < b[1]

\* a < b as signed 64-bit integers
I64Less(a, b) ==
    IF I64IsNeg(a) # I64IsNeg(b) THEN I64IsNeg(a) ELSE I64ULess(a, b)

\* Go's builtin max and min on int64
I64Max(a, b) == IF I64Less(a, b) THEN b ELSE a
I64Min(a, b) == IF I64Less(b, a) THEN b ELSE a

\* unsigned long division of the limbs by a small d
I64UDivSmall(a, d) ==
    LET c4 == a[4]
        c3 == (c4 % d) * Base + a[3]
        c2 == (c3 % d) * Base + a[2]
        c1 == (c2 % d) * Base + a[1]
    IN  <<c1 \div d, c2 \div d, c3 \div d, c4 \div d>>

\* a / d in Go: the quotient truncated toward zero
I64DivSmall(a, d) ==
    IF I64IsNeg(a) THEN I64Neg(I64UDivSmall(I64Neg(a), d))
    ELSE I64UDivSmall(a, d)

\* the value of an int64 that lies in 0 .. 2^31-1
I64Small(a) == a[4] = 0 /\ a[3] = 0 /\ a[2] < Half
I64ToInt(a) == a[1] + Base * a[2]

(***************************************************************************)
(* Program constants and the two profile tables.                           *)
(***************************************************************************)
FolderDBDriver == "sqlite3_folder"
MainDBDriver   == "sqlite3_main"
Identities     == {MainDBDriver, FolderDBDriver}

\* declared outside db_open_cgo.go: the identity tags and the cache ceiling
applicationIDMain   == 1398041966
applicationIDFolder == 1398040164
folderMaxCacheSize  == 64 * 1024 * 1024

\* fmt.Sprintf("%d", n) for n >= 0
Sprintf_d(n) == ToString(n)

folder_pragmas == <<
    "journal_mode = WAL",
    "optimize = 0x10002",
    "auto_vacuum = INCREMENTAL",
    "application_id = " \o Sprintf_d(applicationIDFolder),
    "busy_timeout = 5000",
    "temp_store = MEMORY",
    "synchronous = NORMAL",
    "journal_size_limit = 8388608",
    "cache_spill = FALSE" >>

main_pragmas == <<
    "journal_mode = WAL",
    "optimize = 0x10002",
    "auto_vacuum = INCREMENTAL",
    "application_id = " \o Sprintf_d(applicationIDMain) >>

\* fmt.Sprintf("PRAGMA %s", pragma)
pragma_stmt(pragma) == "PRAGMA " \o pragma

\* the tables of the loop of tuneFolderCacheSize, in its order
tables == <<"files", "blocklists">>

\* fmt.Sprintf(count_query, table)
count_query(table) ==
    "SELECT CAST(SUBSTR(stat, 1, INSTR(stat, ' ') - 1) AS INTEGER) FROM sqlite_stat1 WHERE tbl = '"
        \o table \o "' LIMIT 1"

\* an estimate that takes the smaller of the two counts
target_cache_size_kB_min(files, blocklists) ==
    LET count_estimate == I64Min(files, blocklists)
        product        == I64MulSmall(128, count_estimate)
        clamped        == I64Min(product, I64(folderMaxCacheSize))
    IN  I64DivSmall(clamped, 1000)

\* a computation that leaves out the min with folderMaxCacheSize
target_cache_size_kB_unclamped(files, blocklists) ==
    CHOOSE kB \in
        { I64DivSmall(product, 1000) :
            product \in { I64MulSmall(128, count_estimate) :
                count_estimate \in { I64Max(files, blocklists) } } } : TRUE

\* lines 116-121: the cache size in kB computed from the two counts; each
\* intermediate value is computed once, in the order of the assignments
target_cache_size_kB(files, blocklists) ==
    CHOOSE kB \in
        { I64DivSmall(clamped, 1000) :
            clamped \in { I64Min(product, I64(folderMaxCacheSize)) :
                product \in { I64MulSmall(128, count_estimate) :
                    count_estimate \in { I64Max(files, blocklists) } } } } : TRUE

\* a threshold test that lets 2000 kB through
tune_applies_from_2000(kB) == ~I64Less(kB, I64(2000))

\* a threshold test with the comparison turned around
tune_applies_below(kB) == ~I64IsNeg(kB) /\ I64Less(kB, I64(2000))

\* line 122: whether the override is issued
tune_applies(kB) == I64Less(I64(2000), kB)

\* line 124: the override statement (kB is then within 2001 .. ceiling/1000)
cache_size_pragma(kB) == "PRAGMA cache_size = -" \o Sprintf_d(I64ToInt(kB))

(***************************************************************************)
(* State.                                                                  *)
(***************************************************************************)
VARIABLES
    drivers,          \* database/sql registry: identity -> the hooks bound to it
    regCalls,         \* identity -> number of calls of its register function
    panicked,         \* "none", or the identity whose registration panicked
    role,             \* connection -> "none" or the identity it was opened under
    pc,               \* connection -> position of its hook
    idx,              \* connection -> index of the next pragma of the loop
    tbl,              \* connection -> index of the table of the tuning loop
    execLog,          \* connection -> statements passed to conn.Exec, in order
    execErrs,         \* connection -> how many of those Exec calls returned an error
    prepLog,          \* connection -> queries passed to conn.Prepare, in order
    stmtOpen,         \* connection -> tables whose prepared statement is open
    rowsOpen,         \* connection -> tables whose result cursor is open
    results,          \* connection -> the value rows.Next stored in results[0]
    files_count,      \* connection -> local of tuneFolderCacheSize
    blocklists_count, \* connection -> local of tuneFolderCacheSize
    target_cache_size,\* connection -> local of tuneFolderCacheSize (kB at the end)
    logs,             \* connection -> slog entries emitted by its hook
    ret               \* connection -> "pending", or the error the hook returned

vars == <<drivers, regCalls, panicked, role, pc, idx, tbl, execLog, execErrs,
          prepLog, stmtOpen, rowsOpen, results, files_count, blocklists_count,
          target_cache_size, logs, ret>>

connVars == <<role, pc, idx, tbl, execLog, execErrs, prepLog, stmtOpen, rowsOpen,
              results, files_count, blocklists_count, target_cache_size, logs, ret>>

tuneVars == <<tbl, prepLog, stmtOpen, rowsOpen, results, files_count,
              blocklists_count, target_cache_size>>

ConnIds == 1..NumConns

NoVal == <<>>
NoResult == [kind |-> "none", v |-> NoVal]

LogEntry(level, msg, val) == [level |-> level, msg |-> msg, val |-> val]

\* the state of a process that has opened nothing
NoConns ==
    /\ role = [c \in ConnIds |-> "none"]
    /\ pc = [c \in ConnIds |-> "idle"]
    /\ idx = [c \in ConnIds |-> 1]
    /\ tbl = [c \in ConnIds |-> 1]
    /\ execLog = [c \in ConnIds |-> <<>>]
    /\ execErrs = [c \in ConnIds |-> 0]
    /\ prepLog = [c \in ConnIds |-> <<>>]
    /\ stmtOpen = [c \in ConnIds |-> {}]
    /\ rowsOpen = [c \in ConnIds |-> {}]
    /\ results = [c \in ConnIds |-> NoResult]
    /\ files_count = [c \in ConnIds |-> I64(0)]
    /\ blocklists_count = [c \in ConnIds |-> I64(0)]
    /\ target_cache_size = [c \in ConnIds |-> I64(0)]
    /\ logs = [c \in ConnIds |-> <<>>]
    /\ ret = [c \in ConnIds |-> "pending"]

Init ==
    /\ drivers = [n \in Identities |-> {}]
    /\ regCalls = [n \in Identities |-> 0]
    /\ panicked = "none"
    /\ NoConns

(***************************************************************************)
(* Driver registration (lines 54-56, 69-71).                               *)
(***************************************************************************)
\* an unrecovered panic ends the process, and with it every connection
Crash(name) ==
    /\ panicked' = name
    /\ role' = [c \in ConnIds |-> "none"]
    /\ pc' = [c \in ConnIds |-> "idle"]
    /\ idx' = [c \in ConnIds |-> 1]
    /\ tbl' = [c \in ConnIds |-> 1]
    /\ execLog' = [c \in ConnIds |-> <<>>]
    /\ execErrs' = [c \in ConnIds |-> 0]
    /\ prepLog' = [c \in ConnIds |-> <<>>]
    /\ stmtOpen' = [c \in ConnIds |-> {}]
    /\ rowsOpen' = [c \in ConnIds |-> {}]
    /\ results' = [c \in ConnIds |-> NoResult]
    /\ files_count' = [c \in ConnIds |-> I64(0)]
    /\ blocklists_count' = [c \in ConnIds |-> I64(0)]
    /\ target_cache_size' = [c \in ConnIds |-> I64(0)]
    /\ logs' = [c \in ConnIds |-> <<>>]
    /\ ret' = [c \in ConnIds |-> "pending"]

\* sql.Register(name, driver) as the hooks call it: database/sql panics when
\* the name is already registered and binds the driver otherwise
sqlRegister(name, hook) ==
    IF drivers[name] # {}
    THEN /\ Crash(name)
         /\ UNCHANGED drivers
    ELSE /\ drivers' = [drivers EXCEPT ![name] = {hook}]
         /\ UNCHANGED <<panicked, connVars>>

\* a registration that skips an identity that is already bound
registerMainDriverOnce ==
    /\ panicked = "none"
    /\ regCalls' = [regCalls EXCEPT ![MainDBDriver] = @ + 1]
    /\ IF drivers[MainDBDriver] # {}
       THEN UNCHANGED <<drivers, panicked, connVars>>
       ELSE sqlRegister(MainDBDriver, "main_hook")

registerMainDriver ==
    /\ panicked = "none"
    /\ regCalls' = [regCalls EXCEPT ![MainDBDriver] = @ + 1]
    /\ sqlRegister(MainDBDriver, "main_hook")

registerFolderDriver ==
    /\ panicked = "none"
    /\ regCalls' = [regCalls EXCEPT ![FolderDBDriver] = @ + 1]
    /\ sqlRegister(FolderDBDriver, "folder_hook")

(***************************************************************************)
(* The connect hooks.  One action per engine call; err is the engine's     *)
(* answer (TRUE: the call returned an error).                              *)
(***************************************************************************)
\* lines 58 and 73: the engine opened a connection under a registered
\* identity and entered that identity's hook
ConnectHook(c, name) ==
    /\ panicked = "none"
    /\ role[c] = "none"
    /\ drivers[name] # {}
    /\ role' = [role EXCEPT ![c] = name]
    /\ pc' = [pc EXCEPT ![c] = "pragmas"]
    /\ logs' = [logs EXCEPT ![c] = Append(@, LogEntry("DEBUG",
                   IF name = MainDBDriver THEN "DB Connect (main)"
                   ELSE "DB Connect (folder)", NoVal))]
    /\ UNCHANGED <<drivers, regCalls, panicked, idx, execLog, execErrs, ret, tuneVars>>

\* an Exec on a connection kept in a package variable by the first hook
connExecFirstConn(c, stmt, err) ==
    /\ execLog' = [execLog EXCEPT ![1] = Append(@, stmt)]
    /\ execErrs' = [execErrs EXCEPT ![1] = IF err THEN @ + 1 ELSE @]

\* conn.Exec(stmt, nil) with its result dropped
connExec(c, stmt, err) ==
    /\ execLog' = [execLog EXCEPT ![c] = Append(@, stmt)]
    /\ execErrs' = [execErrs EXCEPT ![c] = IF err THEN @ + 1 ELSE @]

\* a loop that reports a rejected directive in the log
MainPragmaWarns(c, err) ==
    /\ panicked = "none"
    /\ role[c] = MainDBDriver
    /\ pc[c] = "pragmas"
    /\ idx[c] <= Len(main_pragmas)
    /\ logs' = [logs EXCEPT ![c] =
                   LET logged == Append(@, LogEntry("DEBUG",
                                   "Main: " \o pragma_stmt(main_pragmas[idx[c]]), NoVal))
                   IN  IF err
                       THEN Append(logged, LogEntry("WARN", "Couldn't apply pragma", NoVal))
                       ELSE logged]
    /\ connExec(c, pragma_stmt(main_pragmas[idx[c]]), err)
    /\ idx' = [idx EXCEPT ![c] = @ + 1]
    /\ UNCHANGED <<drivers, regCalls, panicked, role, pc, ret, tuneVars>>

\* lines 59-63: one iteration of the loop over main_pragmas
MainPragma(c, err) ==
    /\ panicked = "none"
    /\ role[c] = MainDBDriver
    /\ pc[c] = "pragmas"
    /\ idx[c] <= Len(main_pragmas)
    /\ logs' = [logs EXCEPT ![c] = Append(@, LogEntry("DEBUG",
                   "Main: " \o pragma_stmt(main_pragmas[idx[c]]), NoVal))]
    /\ connExec(c, pragma_stmt(main_pragmas[idx[c]]), err)
    /\ idx' = [idx EXCEPT ![c] = @ + 1]
    /\ UNCHANGED <<drivers, regCalls, panicked, role, pc, ret, tuneVars>>

\* a main hook that goes on into tuneFolderCacheSize
MainReturnTunes(c) ==
    /\ panicked = "none"
    /\ role[c] = MainDBDriver
    /\ pc[c] = "pragmas"
    /\ idx[c] > Len(main_pragmas)
    /\ pc' = [pc EXCEPT ![c] = "prepare"]
    /\ UNCHANGED <<drivers, regCalls, panicked, role, idx, execLog, execErrs, logs, ret,
                   tuneVars>>

\* line 64: the loop is over, the hook returns nil
MainReturn(c) ==
    /\ panicked = "none"
    /\ role[c] = MainDBDriver
    /\ pc[c] = "pragmas"
    /\ idx[c] > Len(main_pragmas)
    /\ pc' = [pc EXCEPT ![c] = "done"]
    /\ ret' = [ret EXCEPT ![c] = "nil"]
    /\ UNCHANGED <<drivers, regCalls, panicked, role, idx, execLog, execErrs, logs, tuneVars>>

\* a loop that stops at the first directive the engine rejects
FolderPragmaStopsOnError(c, err) ==
    /\ panicked = "none"
    /\ role[c] = FolderDBDriver
    /\ pc[c] = "pragmas"
    /\ idx[c] <= Len(folder_pragmas)
    /\ logs' = [logs EXCEPT ![c] = Append(@, LogEntry("DEBUG",
                   "Folder: " \o pragma_stmt(folder_pragmas[idx[c]]), NoVal))]
    /\ connExec(c, pragma_stmt(folder_pragmas[idx[c]]), err)
    /\ idx' = [idx EXCEPT ![c] = IF err THEN Len(folder_pragmas) + 1 ELSE @ + 1]
    /\ UNCHANGED <<drivers, regCalls, panicked, role, pc, ret, tuneVars>>

\* lines 74-78: one iteration of the loop over folder_pragmas
FolderPragma(c, err) ==
    /\ panicked = "none"
    /\ role[c] = FolderDBDriver
    /\ pc[c] = "pragmas"
    /\ idx[c] <= Len(folder_pragmas)
    /\ logs' = [logs EXCEPT ![c] = Append(@, LogEntry("DEBUG",
                   "Folder: " \o pragma_stmt(folder_pragmas[idx[c]]), NoVal))]
    /\ connExec(c, pragma_stmt(folder_pragmas[idx[c]]), err)
    /\ idx' = [idx EXCEPT ![c] = @ + 1]
    /\ UNCHANGED <<drivers, regCalls, panicked, role, pc, ret, tuneVars>>

\* line 79: the loop is over, tuneFolderCacheSize is entered (lines 96-98)
FolderTune(c) ==
    /\ panicked = "none"
    /\ role[c] = FolderDBDriver
    /\ pc[c] = "pragmas"
    /\ idx[c] > Len(folder_pragmas)
    /\ pc' = [pc EXCEPT ![c] = "prepare"]
    /\ tbl' = [tbl EXCEPT ![c] = 1]
    /\ files_count' = [files_count EXCEPT ![c] = I64(0)]
    /\ blocklists_count' = [blocklists_count EXCEPT ![c] = I64(0)]
    /\ target_cache_size' = [target_cache_size EXCEPT ![c] = I64(0)]
    /\ UNCHANGED <<drivers, regCalls, panicked, role, idx, execLog, execErrs, logs, ret,
                   prepLog, stmtOpen, rowsOpen, results>>

\* "continue", and the end of an iteration: the next table, or past the loop
NextTable(c) ==
    /\ tbl' = [tbl EXCEPT ![c] = @ + 1]
    /\ pc' = [pc EXCEPT ![c] = IF tbl[c] < Len(tables) THEN "prepare" ELSE "apply"]

Warn(c, msg) == logs' = [logs EXCEPT ![c] = Append(@, LogEntry("WARN", msg, NoVal))]

\* a Prepare whose failure leaves the loop instead of continuing it
TunePrepareBreaks(c, err) ==
    /\ panicked = "none"
    /\ pc[c] = "prepare"
    /\ prepLog' = [prepLog EXCEPT ![c] = Append(@, count_query(tables[tbl[c]]))]
    /\ IF err
       THEN /\ Warn(c, "Couldn't prepare query for cache tuning")
            /\ tbl' = [tbl EXCEPT ![c] = Len(tables) + 1]
            /\ pc' = [pc EXCEPT ![c] = "apply"]
            /\ UNCHANGED stmtOpen
       ELSE /\ stmtOpen' = [stmtOpen EXCEPT ![c] = @ \cup {tables[tbl[c]]}]
            /\ pc' = [pc EXCEPT ![c] = "query"]
            /\ UNCHANGED <<logs, tbl>>
    /\ UNCHANGED <<drivers, regCalls, panicked, role, idx, execLog, execErrs, ret,
                   rowsOpen, results, files_count, blocklists_count, target_cache_size>>

\* lines 102-103: conn.Prepare of the count query of the current table
TunePrepare(c, err) ==
    /\ panicked = "none"
    /\ pc[c] = "prepare"
    /\ prepLog' = [prepLog EXCEPT ![c] = Append(@, count_query(tables[tbl[c]]))]
    /\ IF err
       THEN /\ Warn(c, "Couldn't prepare query for cache tuning")
            /\ NextTable(c)
            /\ UNCHANGED stmtOpen
       ELSE /\ stmtOpen' = [stmtOpen EXCEPT ![c] = @ \cup {tables[tbl[c]]}]
            /\ pc' = [pc EXCEPT ![c] = "query"]
            /\ UNCHANGED <<logs, tbl>>
    /\ UNCHANGED <<drivers, regCalls, panicked, role, idx, execLog, execErrs, ret,
                   rowsOpen, results, files_count, blocklists_count, target_cache_size>>

\* a Query failure logged with the message of the Prepare failure
TuneQueryWrongMessage(c, err) ==
    /\ panicked = "none"
    /\ pc[c] = "query"
    /\ IF err
       THEN /\ Warn(c, "Couldn't prepare query for cache tuning")
            /\ NextTable(c)
            /\ UNCHANGED rowsOpen
       ELSE /\ rowsOpen' = [rowsOpen EXCEPT ![c] = @ \cup {tables[tbl[c]]}]
            /\ pc' = [pc EXCEPT ![c] = "next"]
            /\ UNCHANGED <<logs, tbl>>
    /\ UNCHANGED <<drivers, regCalls, panicked, role, idx, execLog, execErrs, ret,
                   prepLog, stmtOpen, results, files_count, blocklists_count,
                   target_cache_size>>

\* lines 104-105: stmt.Query
TuneQuery(c, err) ==
    /\ panicked = "none"
    /\ pc[c] = "query"
    /\ IF err
       THEN /\ Warn(c, "Couldn't execute query for cache tuning")
            /\ NextTable(c)
            /\ UNCHANGED rowsOpen
       ELSE /\ rowsOpen' = [rowsOpen EXCEPT ![c] = @ \cup {tables[tbl[c]]}]
            /\ pc' = [pc EXCEPT ![c] = "next"]
            /\ UNCHANGED <<logs, tbl>>
    /\ UNCHANGED <<drivers, regCalls, panicked, role, idx, execLog, execErrs, ret,
                   prepLog, stmtOpen, results, files_count, blocklists_count,
                   target_cache_size>>

\* a fetch whose failure runs the query of the same table again
TuneNextRetries(c, r) ==
    /\ panicked = "none"
    /\ pc[c] = "next"
    /\ IF r.kind = "err"
       THEN /\ pc' = [pc EXCEPT ![c] = "query"]
            /\ UNCHANGED <<results, logs, tbl>>
       ELSE /\ results' = [results EXCEPT ![c] = r]
            /\ pc' = [pc EXCEPT ![c] = "close"]
            /\ UNCHANGED <<logs, tbl>>
    /\ UNCHANGED <<drivers, regCalls, panicked, role, idx, execLog, execErrs, ret,
                   prepLog, stmtOpen, rowsOpen, files_count, blocklists_count,
                   target_cache_size>>

\* lines 106-108: rows.Next; r is what the engine answers: an error (io.EOF
\* when the statistics hold no row for the table), an int64, or a value of
\* another dynamic type (nil for NULL)
TuneNext(c, r) ==
    /\ panicked = "none"
    /\ pc[c] = "next"
    /\ IF r.kind = "err"
       THEN /\ Warn(c, "Couldn't fetch row count estimate for cache tuning")
            /\ NextTable(c)
            /\ UNCHANGED results
       ELSE /\ results' = [results EXCEPT ![c] = r]
            /\ pc' = [pc EXCEPT ![c] = "close"]
            /\ UNCHANGED <<logs, tbl>>
    /\ UNCHANGED <<drivers, regCalls, panicked, role, idx, execLog, execErrs, ret,
                   prepLog, stmtOpen, rowsOpen, files_count, blocklists_count,
                   target_cache_size>>

\* the counts kept in variables shared by all connections
TuneCloseShared(c) ==
    /\ panicked = "none"
    /\ pc[c] = "close"
    /\ rowsOpen' = [rowsOpen EXCEPT ![c] = @ \ {tables[tbl[c]]}]
    /\ stmtOpen' = [stmtOpen EXCEPT ![c] = @ \ {tables[tbl[c]]}]
    /\ IF results[c].kind # "int64"
       THEN /\ Warn(c, "Couldn't convert row count to int64")
            /\ UNCHANGED <<files_count, blocklists_count>>
       ELSE /\ IF tables[tbl[c]] = "files"
               THEN /\ files_count' = [k \in ConnIds |-> results[c].v]
                    /\ UNCHANGED blocklists_count
               ELSE /\ blocklists_count' = [k \in ConnIds |-> results[c].v]
                    /\ UNCHANGED files_count
            /\ logs' = [logs EXCEPT ![c] =
                            Append(@, LogEntry("DEBUG", tables[tbl[c]], results[c].v))]
    /\ results' = [results EXCEPT ![c] = NoResult]
    /\ NextTable(c)
    /\ UNCHANGED <<drivers, regCalls, panicked, role, idx, execLog, execErrs, ret,
                   prepLog, target_cache_size>>

\* lines 109-114: rows.Close, stmt.Close, the type assertion and the assignment
TuneClose(c) ==
    /\ panicked = "none"
    /\ pc[c] = "close"
    /\ rowsOpen' = [rowsOpen EXCEPT ![c] = @ \ {tables[tbl[c]]}]
    /\ stmtOpen' = [stmtOpen EXCEPT ![c] = @ \ {tables[tbl[c]]}]
    /\ IF results[c].kind # "int64"
       THEN /\ Warn(c, "Couldn't convert row count to int64")
            /\ UNCHANGED <<files_count, blocklists_count>>
       ELSE /\ IF tables[tbl[c]] = "files"
               THEN /\ files_count' = [files_count EXCEPT ![c] = results[c].v]
                    /\ UNCHANGED blocklists_count
               ELSE /\ blocklists_count' = [blocklists_count EXCEPT ![c] = results[c].v]
                    /\ UNCHANGED files_count
            /\ logs' = [logs EXCEPT ![c] =
                            Append(@, LogEntry("DEBUG", tables[tbl[c]], results[c].v))]
    /\ results' = [results EXCEPT ![c] = NoResult]
    /\ NextTable(c)
    /\ UNCHANGED <<drivers, regCalls, panicked, role, idx, execLog, execErrs, ret,
                   prepLog, target_cache_size>>

\* an override that is executed a second time
TuneApplyTwice(c, err) ==
    /\ panicked = "none"
    /\ pc[c] = "apply"
    /\ LET kB == target_cache_size_kB(files_count[c], blocklists_count[c])
       IN  /\ target_cache_size' = [target_cache_size EXCEPT ![c] = kB]
           /\ IF tune_applies(kB)
              THEN /\ execLog' = [execLog EXCEPT ![c] =
                                     Append(Append(@, cache_size_pragma(kB)),
                                            cache_size_pragma(kB))]
                   /\ execErrs' = [execErrs EXCEPT ![c] = IF err THEN @ + 2 ELSE @]
                   /\ logs' = [logs EXCEPT ![c] =
                                   Append(@, LogEntry("INFO", "Folder DB cache tuned", kB))]
              ELSE UNCHANGED <<execLog, execErrs, logs>>
    /\ pc' = [pc EXCEPT ![c] = "return"]
    /\ UNCHANGED <<drivers, regCalls, panicked, role, idx, ret, tbl, prepLog,
                   stmtOpen, rowsOpen, results, files_count, blocklists_count>>

\* lines 116-127: the estimate, and the override when it is above 2000 kB
TuneApply(c, err) ==
    /\ panicked = "none"
    /\ pc[c] = "apply"
    /\ \E kB \in {target_cache_size_kB(files_count[c], blocklists_count[c])} :
           /\ target_cache_size' = [target_cache_size EXCEPT ![c] = kB]
           /\ IF tune_applies(kB)
              THEN /\ connExec(c, cache_size_pragma(kB), err)
                   /\ logs' = [logs EXCEPT ![c] =
                                   Append(@, LogEntry("INFO", "Folder DB cache tuned", kB))]
              ELSE UNCHANGED <<execLog, execErrs, logs>>
    /\ pc' = [pc EXCEPT ![c] = "return"]
    /\ UNCHANGED <<drivers, regCalls, panicked, role, idx, ret, tbl, prepLog,
                   stmtOpen, rowsOpen, results, files_count, blocklists_count>>

\* a hook that reports a tuning failure to database/sql
FolderReturnEscalates(c) ==
    /\ panicked = "none"
    /\ pc[c] = "return"
    /\ pc' = [pc EXCEPT ![c] = "done"]
    /\ ret' = [ret EXCEPT ![c] =
                  IF \E i \in 1..Len(logs[c]) : logs[c][i].level = "WARN"
                  THEN "error" ELSE "nil"]
    /\ UNCHANGED <<drivers, regCalls, panicked, role, idx, execLog, execErrs, logs, tuneVars>>

\* line 80: tuneFolderCacheSize returned, the hook returns nil
FolderReturn(c) ==
    /\ panicked = "none"
    /\ pc[c] = "return"
    /\ pc' = [pc EXCEPT ![c] = "done"]
    /\ ret' = [ret EXCEPT ![c] = "nil"]
    /\ UNCHANGED <<drivers, regCalls, panicked, role, idx, execLog, execErrs, logs, tuneVars>>

(***************************************************************************)
(* What the statistics query can return.                                   *)
(***************************************************************************)
Int64Result(v) == [kind |-> "int64", v |-> v]
ErrResult      == [kind |-> "err", v |-> NoVal]
OtherResult    == [kind |-> "other", v |-> NoVal]

\* row counts around the 2000 kB threshold, the spec's example, the ceiling,
\* and counts whose product with 128 leaves the int64 range
Counts == {
    I64(0), I64(1),
    I64(11719),                  \* 1500 kB
    I64(15625),                  \* exactly 2000 kB
    I64(15633),                  \* 2001 kB
    I64(40000), I64(100000),
    I64(folderMaxCacheSize \div 128),
    I64(folderMaxCacheSize \div 128 + 1),
    I64(2147483647),
    <<0, 0, 0, 256>>,            \* 2^56: 128 * count = 2^63 wraps to -2^63
    <<20000, 0, 0, 512>>,        \* 2^57 + 20000: 128 * count wraps to 2560000
    <<65535, 65535, 65535, 32767>>,   \* the largest int64
    I64Neg(I64(1)),
    I64Neg(I64(100000)) }

NextResults == {ErrResult, OtherResult} \cup {Int64Result(v) : v \in Counts}

\* the answers drawn while several hooks run at once: statements execute,
\* sqlite_stat1 may be missing (Prepare fails), and a table's row is missing
\* or gives the count of the spec's example
ConcExecErrs == {FALSE}
ConcResults  == {ErrResult, Int64Result(I64(100000))}

(***************************************************************************)
(* Specifications.                                                         *)
(***************************************************************************)
\* one connection at a time, every answer of the engine
Next ==
    \/ registerMainDriver
    \/ registerFolderDriver
    \/ \E c \in OneConn :
        \/ \E name \in Identities : ConnectHook(c, name)
        \/ \E err \in BOOLEAN : MainPragma(c, err)
        \/ MainReturn(c)
        \/ \E err \in BOOLEAN : FolderPragma(c, err)
        \/ FolderTune(c)
        \/ \E err \in BOOLEAN : TunePrepare(c, err)
        \/ \E err \in BOOLEAN : TuneQuery(c, err)
        \/ \E r \in NextResults : TuneNext(c, r)
        \/ TuneClose(c)
        \/ \E err \in BOOLEAN : TuneApply(c, err)
        \/ FolderReturn(c)

Spec == Init /\ [][Next]_vars

\* a step of the hook running on connection c
HookStep(c) ==
    \/ \E err \in BOOLEAN : MainPragma(c, err)
    \/ MainReturn(c)
    \/ \E err \in BOOLEAN : FolderPragma(c, err)
    \/ FolderTune(c)
    \/ \E err \in BOOLEAN : TunePrepare(c, err)
    \/ \E err \in BOOLEAN : TuneQuery(c, err)
    \/ \E r \in NextResults : TuneNext(c, r)
    \/ TuneClose(c)
    \/ \E err \in BOOLEAN : TuneApply(c, err)
    \/ FolderReturn(c)

\* the hook is straight-line code on one goroutine and every engine call
\* returns: a hook that can take a step takes one
SpecLive == Spec /\ \A c \in OneConn : WF_vars(HookStep(c))

\* NumConns connections whose hooks interleave
NextConc ==
    \/ registerMainDriver
    \/ registerFolderDriver
    \/ \E c \in ConcConns :
        \/ \E name \in Identities : ConnectHook(c, name)
        \/ \E err \in ConcExecErrs : MainPragma(c, err)
        \/ MainReturn(c)
        \/ \E err \in ConcExecErrs : FolderPragma(c, err)
        \/ FolderTune(c)
        \/ \E err \in BOOLEAN : TunePrepare(c, err)
        \/ \E err \in ConcExecErrs : TuneQuery(c, err)
        \/ \E r \in ConcResults : TuneNext(c, r)
        \/ TuneClose(c)
        \/ \E err \in ConcExecErrs : TuneApply(c, err)
        \/ FolderReturn(c)

SpecConc == Init /\ [][NextConc]_vars

(***************************************************************************)
(* Vocabulary of the properties.                                           *)
(***************************************************************************)
Opened(c)   == role[c] # "none"
Returned(c) == pc[c] = "done"
IsMain(c)   == role[c] = MainDBDriver
IsFolder(c) == role[c] = FolderDBDriver
\* tuneFolderCacheSize has run to its end on c
Tuned(c)    == IsFolder(c) /\ pc[c] \in {"return", "done"}

Warned(c, msg) == \E i \in 1..Len(logs[c]) : logs[c][i] = LogEntry("WARN", msg, NoVal)
AnyWarn(c)     == \E i \in 1..Len(logs[c]) : logs[c][i].level = "WARN"
\* the count query of table t succeeded on c with the int64 v
Counted(c, t, v) == \E i \in 1..Len(logs[c]) : logs[c][i] = LogEntry("DEBUG", t, v)

IsCacheSizeDirective(s) == Len(s) >= 19 /\ SubSeq(s, 1, 19) = "PRAGMA cache_size ="
CacheSizeDirectives(c)  == SelectSeq(execLog[c], IsCacheSizeDirective)

StaticStmts(name) ==
    IF name = MainDBDriver
    THEN [i \in 1..Len(main_pragmas) |-> pragma_stmt(main_pragmas[i])]
    ELSE [i \in 1..Len(folder_pragmas) |-> pragma_stmt(folder_pragmas[i])]

(***************************************************************************)
(* C1: whatever the engine answers to the static directives, to the        *)
(* statistics queries and to the override, a hook of either role that has  *)
(* returned has returned nil; no hook ever returns a non-nil error.        *)
(***************************************************************************)
C1_HookReturnsNil ==
    \A c \in ConnIds :
        /\ ret[c] \in {"pending", "nil"}
        /\ Returned(c) => ret[c] = "nil"
        /\ ret[c] = "pending" => ~Returned(c)

\* a folder hook returned nil although every Exec failed, the override
\* included, and the statistics of one table could not be read
C1_Witness ==
    /\ IsFolder(1) /\ Returned(1) /\ ret[1] = "nil"
    /\ Len(execLog[1]) = Len(folder_pragmas) + 1
    /\ execErrs[1] = Len(execLog[1])
    /\ AnyWarn(1)

(***************************************************************************)
(* C2: when the hook has returned, no prepared statement and no result     *)
(* cursor of the connection is still open.                                 *)
(***************************************************************************)
C2_NothingLeftOpen ==
    \A c \in ConnIds : Returned(c) => stmtOpen[c] = {} /\ rowsOpen[c] = {}

(***************************************************************************)
(* C3: on a folder connection whose two count queries succeeded with f and *)
(* b, where 128 * max(f, b) is at most folderMaxCacheSize and              *)
(* (128 * max(f, b)) div 1000 is above 2000, the hook executes exactly one *)
(* cache-size directive, "PRAGMA cache_size = -<(128 * max(f, b)) div      *)
(* 1000>", after the static profile; f = 100000 and b = 40000 give         *)
(* "PRAGMA cache_size = -12800".                                           *)
(***************************************************************************)
\* m is the larger of the two counts and 128 * m does not exceed the ceiling
LargerWithinCeiling(m, o) ==
    /\ I64Small(m)
    /\ I64ToInt(m) <= folderMaxCacheSize \div 128
    /\ I64IsNeg(o) \/ (I64Small(o) /\ I64ToInt(o) <= I64ToInt(m))

C3_OverrideValue ==
    \A c \in ConnIds :
      LET f == files_count[c]
          b == blocklists_count[c]
      IN
        (Tuned(c) /\ Counted(c, "files", f) /\ Counted(c, "blocklists", b)) =>
            /\ \A p \in {<<f, b>>, <<b, f>>} :
                LET m == p[1]
                    o == p[2]
                IN
                  (/\ LargerWithinCeiling(m, o)
                   /\ (128 * I64ToInt(m)) \div 1000 > 2000)
                  => /\ CacheSizeDirectives(c) =
                          << "PRAGMA cache_size = -"
                               \o ToString((128 * I64ToInt(m)) \div 1000) >>
                     /\ execLog[c] = StaticStmts(FolderDBDriver)
                                        \o CacheSizeDirectives(c)
            /\ (f = I64(100000) /\ b = I64(40000))
                  => CacheSizeDirectives(c) = << "PRAGMA cache_size = -12800" >>

\* the spec's example: 100000 files and 40000 blocklists, override issued
C3_Witness ==
    /\ Returned(1) /\ IsFolder(1)
    /\ Counted(1, "files", I64(100000)) /\ Counted(1, "blocklists", I64(40000))
    /\ execLog[1][Len(execLog[1])] = "PRAGMA cache_size = -12800"

(***************************************************************************)
(* C4: on a folder connection whose row count estimate, a non-negative     *)
(* int64, times 128 exceeds folderMaxCacheSize, the cache size used is the *)
(* ceiling: the kilobyte value is folderMaxCacheSize div 1000 and it is    *)
(* the value of the override (the ceiling being above 2000 kB), also when  *)
(* 128 * estimate does not fit in 64 bits.                                 *)
(***************************************************************************)
\* the larger of the two counts, as signed 64-bit integers
Estimate(c) ==
    IF I64Less(files_count[c], blocklists_count[c])
    THEN blocklists_count[c] ELSE files_count[c]

\* 128 * e > folderMaxCacheSize, for a non-negative int64 e
ProductAboveCeiling(e) ==
    ~I64IsNeg(e) /\ I64ULess(I64(folderMaxCacheSize \div 128), e)

C4_CeilingUsed ==
    \A c \in ConnIds :
        (Tuned(c) /\ ProductAboveCeiling(Estimate(c))) =>
            /\ target_cache_size[c] = I64(folderMaxCacheSize \div 1000)
            /\ folderMaxCacheSize \div 1000 > 2000 =>
                  CacheSizeDirectives(c) =
                      << "PRAGMA cache_size = -" \o ToString(folderMaxCacheSize \div 1000) >>

(***************************************************************************)
(* C5: on a folder connection whose tuning has run, the cache-size         *)
(* override is executed if and only if the computed kilobyte value is      *)
(* strictly above 2000: at 1500 and at exactly 2000 nothing is executed    *)
(* beyond the static profile, although both count queries succeeded.       *)
(***************************************************************************)
Above2000(kB) == ~I64IsNeg(kB) /\ (~I64Small(kB) \/ I64ToInt(kB) > 2000)

C5_OverrideIffAbove2000 ==
    \A c \in ConnIds :
        Tuned(c) =>
            /\ Len(CacheSizeDirectives(c)) <= 1
            /\ CacheSizeDirectives(c) # <<>> <=> Above2000(target_cache_size[c])
            /\ ~Above2000(target_cache_size[c]) =>
                   execLog[c] = StaticStmts(FolderDBDriver)

\* both counts were read, the value is exactly 2000 kB, nothing was overridden
C5_Witness ==
    /\ Returned(1) /\ IsFolder(1)
    /\ Counted(1, "files", I64(15625)) /\ Counted(1, "blocklists", I64(11719))
    /\ target_cache_size[1] = I64(2000)
    /\ execLog[1] = StaticStmts(FolderDBDriver)

(***************************************************************************)
(* C6: on a folder connection where the count queries of both tables       *)
(* failed, the estimate is 0, the kilobyte value is 0, no cache-size       *)
(* override is executed, and the hook returns nil.                         *)
(***************************************************************************)
Warnings(c) == SelectSeq(logs[c], LAMBDA e : e.level = "WARN")

C6_BothFail ==
    \A c \in ConnIds :
        (Tuned(c) /\ Len(Warnings(c)) = Len(tables)) =>
            /\ files_count[c] = I64(0) /\ blocklists_count[c] = I64(0)
            /\ target_cache_size[c] = I64(0)
            /\ CacheSizeDirectives(c) = <<>>
            /\ execLog[c] = StaticStmts(FolderDBDriver)
            /\ Returned(c) => ret[c] = "nil"

\* files failed at the fetch, blocklists at the conversion; the hook returned
C6_Witness ==
    /\ Returned(1) /\ IsFolder(1) /\ ret[1] = "nil"
    /\ Warned(1, "Couldn't fetch row count estimate for cache tuning")
    /\ Warned(1, "Couldn't convert row count to int64")
    /\ Len(Warnings(1)) = 2
    /\ execLog[1] = StaticStmts(FolderDBDriver)

(***************************************************************************)
(* C7: on a main connection no statistics query is ever prepared or run,   *)
(* no statement or cursor is opened and no cache-size directive is         *)
(* executed: the hook only runs its pragma loop and returns.               *)
(***************************************************************************)
C7_MainNeverTunes ==
    \A c \in ConnIds :
        IsMain(c) =>
            /\ pc[c] \in {"pragmas", "done"}
            /\ prepLog[c] = <<>>
            /\ stmtOpen[c] = {} /\ rowsOpen[c] = {}
            /\ CacheSizeDirectives(c) = <<>>
            /\ \A i \in 1..Len(logs[c]) : logs[c][i].level = "DEBUG"

\* a main hook that has returned, every directive having failed
C7_Witness ==
    /\ IsMain(1) /\ Returned(1)
    /\ Len(execLog[1]) = Len(main_pragmas)
    /\ execErrs[1] = Len(main_pragmas)

(***************************************************************************)
(* C8: at every moment the statements a connection's hook has passed to    *)
(* Exec are the first idx-1 directives of its role's profile, in the       *)
(* profile's order; once the loop is over they are the whole profile, each *)
(* directive once, followed by nothing but the folder override.  The main  *)
(* profile has 4 directives.                                               *)
(***************************************************************************)
NoRepeat(seq) == \A i, j \in 1..Len(seq) : seq[i] = seq[j] => i = j

C8_ProfileInOrder ==
    /\ Len(main_pragmas) = 4
    /\ NoRepeat(StaticStmts(MainDBDriver)) /\ NoRepeat(StaticStmts(FolderDBDriver))
    /\ \A c \in ConnIds :
        Opened(c) =>
            LET profile == StaticStmts(role[c])
            IN  /\ pc[c] = "pragmas" =>
                      execLog[c] = SubSeq(profile, 1, idx[c] - 1)
                /\ pc[c] # "pragmas" =>
                      /\ Len(execLog[c]) >= Len(profile)
                      /\ SubSeq(execLog[c], 1, Len(profile)) = profile
                      /\ SelectSeq(execLog[c], LAMBDA st : ~IsCacheSizeDirective(st))
                            = profile
                /\ (IsMain(c) /\ Returned(c)) => execLog[c] = profile

\* a folder hook returned after the engine rejected some static directive
C8_Witness ==
    /\ IsFolder(1) /\ Returned(1)
    /\ execErrs[1] > 0
    /\ execLog[1] = StaticStmts(FolderDBDriver)

(***************************************************************************)
(* C9: a second registration of an identity is never accepted: it panics   *)
(* (database/sql.Register), and each identity is bound to at most one hook.*)
(***************************************************************************)
C9_DuplicateRegistrationPanics ==
    \A n \in Identities :
        /\ Cardinality(drivers[n]) <= 1
        /\ regCalls[n] >= 2 => panicked = n
        /\ regCalls[n] >= 1 => drivers[n] # {}

C9_Witness ==
    /\ regCalls[MainDBDriver] = 2
    /\ panicked = MainDBDriver
    /\ regCalls[FolderDBDriver] = 1

(***************************************************************************)
(* C10: with several hooks running at once, every connection sees its own  *)
(* role's directives and nothing else, in order, whatever the other hooks  *)
(* do: a connection that has returned received every directive of its      *)
(* profile, and a step of one hook leaves the other connections untouched. *)
(***************************************************************************)
C10_OwnFullSequence ==
    \A c \in ConnIds :
        /\ ~Opened(c) => execLog[c] = <<>>
        /\ Opened(c) =>
            LET profile == StaticStmts(role[c])
            IN  /\ \A i \in 1..Len(execLog[c]) :
                      i <= Len(profile) => execLog[c][i] = profile[i]
                /\ Len(execLog[c]) <= Len(profile) + 1
                /\ Returned(c) => \A i \in 1..Len(profile) : execLog[c][i] = profile[i]

\* two folder hooks in progress at once, at different places
C10_Witness ==
    /\ IsFolder(1) /\ IsFolder(2)
    /\ pc[1] = "pragmas" /\ idx[1] = 5
    /\ pc[2] = "apply" /\ Len(execLog[2]) = Len(folder_pragmas)

(***************************************************************************)
(* C11 (as claimed): when one table's query failed and the other's gave    *)
(* the count b, the row count estimate is b.                               *)
(***************************************************************************)
\* the count query of table t failed on c: its iteration is over, no count
Failed(c, t) ==
    /\ \E i \in 1..Len(prepLog[c]) : prepLog[c][i] = count_query(t)
    /\ \A i \in 1..Len(logs[c]) : ~(logs[c][i].level = "DEBUG" /\ logs[c][i].msg = t)
    /\ \E i \in 1..Len(tables) : tables[i] = t /\ tbl[c] > i

C11_EstimateIsOtherCount ==
    \A c \in ConnIds :
        Tuned(c) =>
            /\ Failed(c, "files") /\ Counted(c, "blocklists", blocklists_count[c])
                  => Estimate(c) = blocklists_count[c]
            /\ Failed(c, "blocklists") /\ Counted(c, "files", files_count[c])
                  => Estimate(c) = files_count[c]

(***************************************************************************)
(* C11 (amended): a failure at any step for one table leaves that table's  *)
(* count at zero and does not end the estimation: both tables are always   *)
(* queried, files first, and the estimate is the maximum of zero and the   *)
(* count obtained for the other table, hence that count whenever it is not *)
(* negative.                                                               *)
(***************************************************************************)
C11_FailureCountsZero ==
    \A c \in ConnIds :
        Tuned(c) =>
            /\ prepLog[c] = <<count_query("files"), count_query("blocklists")>>
            /\ Failed(c, "files") => files_count[c] = I64(0)
            /\ Failed(c, "blocklists") => blocklists_count[c] = I64(0)
            /\ \A p \in {<<"files", blocklists_count[c]>>, <<"blocklists", files_count[c]>>} :
                  (Failed(c, p[1]) /\ (\E t \in {"files", "blocklists"} \ {p[1]} :
                                           Counted(c, t, p[2])))
                  => /\ ~I64IsNeg(p[2]) => Estimate(c) = p[2]
                     /\ I64IsNeg(p[2]) => Estimate(c) = I64(0)
                     /\ target_cache_size[c] = target_cache_size_kB(I64(0), p[2])

\* files failed at the prepare, blocklists gave 100000, the override is -12800
C11_Witness ==
    /\ Returned(1) /\ IsFolder(1)
    /\ Failed(1, "files") /\ Warned(1, "Couldn't prepare query for cache tuning")
    /\ Counted(1, "blocklists", I64(100000))
    /\ Estimate(1) = I64(100000)
    /\ CacheSizeDirectives(1) = << "PRAGMA cache_size = -12800" >>

(***************************************************************************)
(* C12: on a connection where the engine rejected some Exec, the hook went *)
(* on all the same: the directives executed so far are the profile's, in   *)
(* order and without a gap, the folder hook still ran the estimator on     *)
(* both tables, and the log of the pragma loop holds the entry line and    *)
(* one debug line per directive, nothing for the rejection.                *)
(***************************************************************************)
\* the log lines of a pragma loop that ran to its end
PragmaLogs(name) ==
    IF name = MainDBDriver
    THEN <<LogEntry("DEBUG", "DB Connect (main)", NoVal)>> \o
         [i \in 1..Len(main_pragmas) |->
             LogEntry("DEBUG", "Main: PRAGMA " \o main_pragmas[i], NoVal)]
    ELSE <<LogEntry("DEBUG", "DB Connect (folder)", NoVal)>> \o
         [i \in 1..Len(folder_pragmas) |->
             LogEntry("DEBUG", "Folder: PRAGMA " \o folder_pragmas[i], NoVal)]

C12_ProceedsAfterExecError ==
    \A c \in ConnIds :
        (Opened(c) /\ execErrs[c] > 0) =>
            LET profile == StaticStmts(role[c])
                lines   == PragmaLogs(role[c])
            IN  /\ pc[c] = "pragmas" =>
                      /\ execLog[c] = SubSeq(profile, 1, idx[c] - 1)
                      /\ logs[c] = SubSeq(lines, 1, idx[c])
                /\ pc[c] # "pragmas" =>
                      /\ SubSeq(execLog[c], 1, Len(profile)) = profile
                      /\ SubSeq(logs[c], 1, Len(lines)) = lines
                /\ (IsMain(c) /\ Returned(c)) => logs[c] = lines
                /\ (IsFolder(c) /\ Returned(c)) =>
                      prepLog[c] = <<count_query("files"), count_query("blocklists")>>

\* every static folder directive was rejected; the estimator ran, no override
C12_Witness ==
    /\ IsFolder(1) /\ Returned(1)
    /\ execErrs[1] = Len(folder_pragmas)
    /\ execLog[1] = StaticStmts(FolderDBDriver)
    /\ Len(prepLog[1]) = Len(tables)

(***************************************************************************)
(* C13: a cache-size override is found only on a folder connection, at     *)
(* most once, as the last statement of the Exec log, after the whole       *)
(* static folder profile and after the loop over both statistics tables    *)
(* has ended; the hook has not returned before it, and executes nothing    *)
(* after it.                                                               *)
(***************************************************************************)
C13_OverrideOnceAndLast ==
    \A c \in ConnIds :
        /\ Len(CacheSizeDirectives(c)) <= 1
        /\ CacheSizeDirectives(c) # <<>> =>
              /\ IsFolder(c)
              /\ pc[c] \in {"return", "done"}
              /\ execLog[c] = StaticStmts(FolderDBDriver) \o CacheSizeDirectives(c)
              /\ IsCacheSizeDirective(execLog[c][Len(execLog[c])])
              /\ tbl[c] = Len(tables) + 1
              /\ prepLog[c] = <<count_query("files"), count_query("blocklists")>>
              /\ results[c] = NoResult
        /\ (Opened(c) /\ pc[c] \notin {"return", "done"}) => CacheSizeDirectives(c) = <<>>

\* the override has been executed and the hook has not returned yet
C13_Witness ==
    /\ IsFolder(1) /\ pc[1] = "return" /\ ret[1] = "pending"
    /\ Len(execLog[1]) = Len(folder_pragmas) + 1
    /\ CacheSizeDirectives(1) = << "PRAGMA cache_size = -12800" >>

(***************************************************************************)
(* C14: the iteration of a table that ends without a count appends exactly *)
(* one warning, the one of the step that failed (prepare, execute, fetch,  *)
(* conversion), and an iteration that obtains its count appends none; so   *)
(* after the loop there is one warning per failed table.  The "Folder DB   *)
(* cache tuned" entry, carrying the chosen size, is in a connection's log  *)
(* if and only if the override was executed on that connection.            *)
(***************************************************************************)
Infos(c) == SelectSeq(logs[c], LAMBDA e : e.level = "INFO")

FailedTables(c) == {t \in {"files", "blocklists"} : Failed(c, t)}

C14_LogState ==
    \A c \in ConnIds :
        /\ Len(Infos(c)) = Len(CacheSizeDirectives(c))
        /\ Infos(c) # <<>> =>
              /\ Infos(c) = <<LogEntry("INFO", "Folder DB cache tuned", target_cache_size[c])>>
              /\ CacheSizeDirectives(c) =
                    << "PRAGMA cache_size = -" \o ToString(I64ToInt(Infos(c)[1].val)) >>
        /\ Tuned(c) => Len(Warnings(c)) = Cardinality(FailedTables(c))

\* the step that ends the iteration of a table names what happened in it
C14_LogStep(c) ==
    (panicked' = "none" /\ tbl'[c] = tbl[c] + 1) =>
        /\ pc[c] = "prepare" =>
              logs'[c] = Append(logs[c],
                  LogEntry("WARN", "Couldn't prepare query for cache tuning", NoVal))
        /\ pc[c] = "query" =>
              logs'[c] = Append(logs[c],
                  LogEntry("WARN", "Couldn't execute query for cache tuning", NoVal))
        /\ pc[c] = "next" =>
              logs'[c] = Append(logs[c],
                  LogEntry("WARN", "Couldn't fetch row count estimate for cache tuning", NoVal))
        /\ (pc[c] = "close" /\ results[c].kind # "int64") =>
              logs'[c] = Append(logs[c],
                  LogEntry("WARN", "Couldn't convert row count to int64", NoVal))
        /\ (pc[c] = "close" /\ results[c].kind = "int64") =>
              logs'[c] = Append(logs[c],
                  LogEntry("DEBUG", tables[tbl[c]], results[c].v))

C14_Logging == []C14_LogState /\ [][\A c \in ConnIds : C14_LogStep(c)]_vars

\* one table failed at the execute step, the other gave its count, the
\* override was executed and logged
C14_Witness ==
    /\ IsFolder(1) /\ Returned(1)
    /\ Warnings(1) = <<LogEntry("WARN", "Couldn't execute query for cache tuning", NoVal)>>
    /\ Counted(1, "files", I64(100000))
    /\ logs[1][Len(logs[1])] = LogEntry("INFO", "Folder DB cache tuned", I64(12800))
    /\ CacheSizeDirectives(1) = << "PRAGMA cache_size = -12800" >>

(***************************************************************************)
(* C15: what is executed on a connection is a function of the engine's     *)
(* answers on that connection alone.  A connection whose tuning has run    *)
(* has executed the folder profile followed by the override computed from  *)
(* the counts its own two queries returned (zero for a query that failed), *)
(* or by nothing when that value does not exceed 2000; a main connection   *)
(* executes only a prefix of the main profile; and a step of one hook      *)
(* changes nothing of any other connection.                                *)
(***************************************************************************)
\* the count the engine gave to connection c for table t, zero if none
OwnCount(c, t) ==
    LET S == {i \in 1..Len(logs[c]) : logs[c][i].level = "DEBUG" /\ logs[c][i].msg = t}
    IN  IF S = {} THEN I64(0) ELSE logs[c][CHOOSE i \in S : TRUE].val

OwnOverride(c) ==
    LET kB == target_cache_size_kB(OwnCount(c, "files"), OwnCount(c, "blocklists"))
    IN  IF tune_applies(kB) THEN <<cache_size_pragma(kB)>> ELSE <<>>

ConnState(c) ==
    <<role[c], pc[c], idx[c], tbl[c], execLog[c], execErrs[c], prepLog[c], stmtOpen[c],
      rowsOpen[c], results[c], files_count[c], blocklists_count[c],
      target_cache_size[c], logs[c], ret[c]>>

C15_OwnAnswersOnly ==
    \A c \in ConnIds :
        /\ Tuned(c) => execLog[c] = StaticStmts(FolderDBDriver) \o OwnOverride(c)
        /\ (IsFolder(c) /\ ~Tuned(c)) =>
              execLog[c] = SubSeq(StaticStmts(FolderDBDriver), 1, Len(execLog[c]))
        /\ IsMain(c) =>
              execLog[c] = SubSeq(StaticStmts(MainDBDriver), 1, Len(execLog[c]))

C15_OneConnectionPerStep ==
    panicked' = "none" =>
        Cardinality({c \in ConnIds : ConnState(c)' # ConnState(c)}) <= 1

C15_FreshPerConnection == []C15_OwnAnswersOnly /\ [][C15_OneConnectionPerStep]_vars

\* two folder connections open at once: the first got a count and the
\* override, the second got no count and no override
C15_Witness ==
    /\ IsFolder(1) /\ IsFolder(2) /\ Returned(1) /\ Returned(2)
    /\ Counted(1, "files", I64(100000))
    /\ CacheSizeDirectives(1) = << "PRAGMA cache_size = -12800" >>
    /\ Failed(2, "files") /\ Failed(2, "blocklists")
    /\ CacheSizeDirectives(2) = <<>>

(***************************************************************************)
(* C16: no step of a hook is taken twice.  The count query of files is     *)
(* prepared at most once and before that of blocklists, also at most once; *)
(* every step of a hook moves it strictly forward in the order pragmas,    *)
(* files (prepare, query, fetch, close), blocklists (the same), override,  *)
(* return, so that a failed step is never attempted again and the number   *)
(* of steps is bounded; and a hook that was entered returns (unless the    *)
(* process panics in a duplicate registration) whatever the engine answers.*)
(***************************************************************************)
StepOrder(p) ==
    CASE p = "prepare" -> 0 [] p = "query" -> 1 [] p = "next" -> 2 [] p = "close" -> 3

TuneBase == Len(folder_pragmas) + 2

Rank(c) ==
    CASE pc[c] = "idle"    -> 0
      [] pc[c] = "pragmas" -> idx[c]
      [] pc[c] \in {"prepare", "query", "next", "close"} ->
             TuneBase + 4 * (tbl[c] - 1) + StepOrder(pc[c])
      [] pc[c] = "apply"   -> TuneBase + 4 * Len(tables)
      [] pc[c] = "return"  -> TuneBase + 4 * Len(tables) + 1
      [] pc[c] = "done"    -> TuneBase + 4 * Len(tables) + 2

MaxRank == TuneBase + 4 * Len(tables) + 2

C16_Bounded ==
    \A c \in ConnIds :
        /\ Rank(c) <= MaxRank
        /\ prepLog[c] = SubSeq(<<count_query("files"), count_query("blocklists")>>,
                               1, Len(prepLog[c]))
        /\ Len(execLog[c]) <= Len(folder_pragmas) + 1
        /\ pc[c] \in {"prepare", "query", "next", "close"} =>
              /\ tbl[c] \in 1..Len(tables)
              /\ Len(prepLog[c]) = IF pc[c] = "prepare" THEN tbl[c] - 1 ELSE tbl[c]

C16_Forward(c) ==
    (panicked' = "none" /\ ConnState(c)' # ConnState(c)) => Rank(c)' > Rank(c)

C16_NoRetries ==
    /\ []C16_Bounded
    /\ [][\A c \in ConnIds : C16_Forward(c)]_vars
    /\ \A c \in ConnIds : Opened(c) ~> (Returned(c) \/ panicked # "none")

\* every engine call of a folder hook failed and the hook returned
C16_Witness ==
    /\ IsFolder(1) /\ Returned(1) /\ panicked = "none"
    /\ execErrs[1] = Len(folder_pragmas)
    /\ Warnings(1) =
          << LogEntry("WARN", "Couldn't fetch row count estimate for cache tuning", NoVal),
             LogEntry("WARN", "Couldn't prepare query for cache tuning", NoVal) >>
    /\ Rank(1) = MaxRank

(***************************************************************************)
(* C17: every cache-size override that is executed reads                   *)
(* "PRAGMA cache_size = -" followed by the decimal digits, without sign    *)
(* and without leading zero, of an integer v with                          *)
(* 2000 < v <= folderMaxCacheSize div 1000, whatever int64 values the two  *)
(* count queries returned: negative ones, and ones whose product with 128  *)
(* wraps around.                                                           *)
(***************************************************************************)
Digits == <<"0", "1", "2", "3", "4", "5", "6", "7", "8", "9">>

IsDigit(ch) == \E d \in 1..Len(Digits) : Digits[d] = ch

DigitValue(ch) == (CHOOSE d \in 1..Len(Digits) : Digits[d] = ch) - 1

AllDigits(s) == Len(s) > 0 /\ \A i \in 1..Len(s) : IsDigit(SubSeq(s, i, i))

RECURSIVE ParseDecimal(_)
ParseDecimal(s) ==
    IF Len(s) = 0 THEN 0
    ELSE 10 * ParseDecimal(SubSeq(s, 1, Len(s) - 1)) + DigitValue(SubSeq(s, Len(s), Len(s)))

DirectivePrefix == "PRAGMA cache_size = -"

\* what follows "PRAGMA cache_size = -" in a directive
Magnitude(s) == SubSeq(s, Len(DirectivePrefix) + 1, Len(s))

C17_MagnitudeInRange ==
    \A c \in ConnIds :
        \A i \in 1..Len(execLog[c]) :
            IsCacheSizeDirective(execLog[c][i]) =>
                LET s == execLog[c][i]
                    m == Magnitude(s)
                IN  /\ Len(s) > Len(DirectivePrefix)
                    /\ SubSeq(s, 1, Len(DirectivePrefix)) = DirectivePrefix
                    /\ AllDigits(m)
                    /\ SubSeq(m, 1, 1) # "0"
                    /\ Len(m) <= 5
                    /\ ParseDecimal(m) > 2000
                    /\ ParseDecimal(m) <= folderMaxCacheSize \div 1000
                    /\ I64Small(target_cache_size[c])
                    /\ ParseDecimal(m) = I64ToInt(target_cache_size[c])

\* files gave 2^57 + 20000, whose product with 128 wraps to 2560000, and
\* blocklists gave -1: the override is 2560 kB
C17_Witness ==
    /\ IsFolder(1) /\ Tuned(1)
    /\ Counted(1, "files", <<20000, 0, 0, 512>>)
    /\ Counted(1, "blocklists", I64Neg(I64(1)))
    /\ execLog[1][Len(execLog[1])] = "PRAGMA cache_size = -2560"

====
